---- MODULE Spec2Model ----
(***************************************************************************)
(* A model of ChatBot_AWS_backend.py: the POST /chat handler, the Kendra   *)
(* search wrapper, the system-prompt assembly and the in-process           *)
(* conversation memory.  The Flask development server started by app.run   *)
(* serves requests on threads, so two handlers can be between any two of   *)
(* their statements at the same time; each action below is one statement   *)
(* group of one handler that touches no shared state in its middle.        *)
(***************************************************************************)
EXTENDS Naturals, Sequences, FiniteSets

VARIABLES
    conversation_history,  \* the module-level list (line 35)
    pc,                    \* per handler thread: where it stands in chat()
    frame,                 \* per handler thread: the locals of chat() and its callees
    served,                \* number of POST /chat requests received so far
    req_session            \* auxiliary: req_session[r] is the session_id request r carried

vars == <<conversation_history, pc, frame, served, req_session>>

\* ---------------------------------------------------------------- values

NoValue == "<none>"   \* Python None / an absent JSON field

Threads == {"t1", "t2"}

\* Bounds on the number of requests the three scenarios receive.
MaxRequests == 2
MaxSeqRequests == 11
MaxPromptRequests == 1

\* PageSize=3 in the Kendra query bounds the number of result items.
PageSize == 3

Sessions == {"s1", "s2"}
MessageFields == {NoValue, "", "m1", "m2"}
Replies == {"r1"}

\* The JSON bodies of POST /chat: "message" and "session_id" may be absent.
Bodies == [message : MessageFields, session_id : Sessions]

\* A Kendra result item, reduced to the two values kendra_search reads.
Items == [Text : {NoValue, "e1", "e2"}, TextWithLinksValue : {NoValue, "u1"}]

SeqsUpTo(S, n) == UNION {[1..k -> S] : k \in 0..n}

AllItemLists == SeqsUpTo(Items, PageSize)

FewItemLists ==
    { <<>>,
      <<[Text |-> "e2", TextWithLinksValue |-> NoValue],
        [Text |-> "e1", TextWithLinksValue |-> "u1"]>> }

\* ------------------------------------------------------- the prompt text
\* A text is a sequence of lines; a line records what kind of line it is.
\*   "text"      any other line
\*   "property"  a line "Property <idx>: <text>"
\*   "image"     a line "Image: <text>"
\*   "matches"   the line "Here are some relevant property matches ..."
\*   "fallback"  the line "Unfortunately, no matching properties were found ..."

Line(k, i, s) == [kind |-> k, idx |-> i, text |-> s]
T(s) == Line("text", 0, s)

chatbot_context ==
    << T(""),
       T("You are a real estate chatbot working for RightHome AI. ..."),
       T(""),
       T("Response Guidelines:"),
       T("1. Provide property details using the following structure:"),
       T("   - Property Name"),
       T("   - Price"),
       T("   - Location"),
       T("   - Area"),
       T("   - Features"),
       T("   - Highlights"),
       T("   - Image: [Image description](Image URL)"),
       T(""),
       T("2. Format Specifications:"),
       T("   - Avoid using special symbols or characters such as *, +, or ()."),
       T("   - Maintain a plain text format for all outputs."),
       T(""),
       T("3. If no matching properties are found, acknowledge politely and suggest alternatives or ways to assist further."),
       T(""),
       T("4. Example of the desired format:"),
       Line("property", 1, "Green Valley Apartments"),
       T("   Price: 50 Lakhs"),
       T("   Location: Jabalpur City Center"),
       T("   Area: 1500 sq ft"),
       T("   Features: 3 BHK, Garden view, Parking space"),
       T("   Highlights: Near schools, hospitals, and markets"),
       Line("image", 0, "[Green Valley Apartments](https://example.com/green-valley-image)"),
       T(""),
       T("5. User Queries:"),
       T("   - Respond accurately to property-related queries."),
       T("   - Redirect irrelevant or off-topic conversations back to property-related topics."),
       T(""),
       T("6. Image Links:"),
       T("   - Ensure every property includes an image link where applicable. ...") >>

matches_header == Line("matches", 0, "Here are some relevant property matches based on the query:")

fallback_paragraph ==
    << T(""),
       Line("fallback", 0, "Unfortunately, no matching properties were found. Let me assist you further with tailored suggestions.") >>

apology == "I'm sorry, I couldn't process your request at the moment."

\* The f-string of lines 109-110: "\nProperty {idx}: {content}\nImage: {image_link}\n".
property_block(idx, result) ==
    << T(""),
       Line("property", idx, result.content),
       Line("image", 0, result.image_link) >>

RECURSIVE property_blocks(_, _)
\* The loop of lines 107-111 over enumerate(search_results, 1), from index idx on.
property_blocks(search_results, idx) ==
    IF idx > Len(search_results) THEN <<>>
    ELSE property_block(idx, search_results[idx]) \o property_blocks(search_results, idx + 1)

RECURSIVE property_blocks_from_zero(_, _)
property_blocks_from_zero(search_results, idx) ==
    IF idx > Len(search_results) THEN <<>>
    ELSE property_block(idx - 1, search_results[idx])
             \o property_blocks_from_zero(search_results, idx + 1)

\* build_context with the loop numbering from 0 (enumerate without its start).
build_context_from_zero(search_results) ==
    IF search_results # <<>>
    THEN chatbot_context \o <<matches_header>> \o property_blocks_from_zero(search_results, 1)
    ELSE chatbot_context \o fallback_paragraph

\* build_context with the no-results branch left out.
build_context_no_fallback(search_results) ==
    IF search_results # <<>>
    THEN chatbot_context \o <<matches_header>> \o property_blocks(search_results, 1)
    ELSE chatbot_context

\* Lines 104-113: the system prompt for a list of search results.
build_context(search_results) ==
    IF search_results # <<>>
    THEN chatbot_context \o <<matches_header>> \o property_blocks(search_results, 1)
    ELSE chatbot_context \o fallback_paragraph

\* Lines 83-94: what kendra_search makes of the service's result items.
kendra_results(items) ==
    [i \in 1..Len(items) |->
        [content    |-> IF items[i].Text = NoValue THEN "" ELSE items[i].Text,
         image_link |-> IF items[i].TextWithLinksValue = NoValue
                        THEN "No image available"
                        ELSE items[i].TextWithLinksValue]]

\* ------------------------------------------------------------ the state

\* An entry of conversation_history or of messages.  req is auxiliary: the
\* number of the request whose handler wrote the entry (0 for the system prompt).
Entry(role, content, r) == [role |-> role, content |-> content, req |-> r]

NoResponse == [status |-> 0, body |-> [none |-> NoValue]]

EmptyFrame ==
    [ user_message     |-> NoValue,
      session_id       |-> NoValue,
      search_results   |-> <<>>,
      messages         |-> <<>>,
      chatbot_response |-> NoValue,
      response         |-> NoResponse,
      req              |-> 0,        \* auxiliary: the number of this request
      calls            |-> {},       \* auxiliary: the external services invoked
      raised           |-> {} ]      \* auxiliary: the external calls that raised

Init ==
    /\ conversation_history = <<>>
    /\ pc = [t \in Threads |-> "idle"]
    /\ frame = [t \in Threads |-> EmptyFrame]
    /\ served = 0
    /\ req_session = <<>>

\* Python's `not user_message` for the values a JSON "message" takes here.
Falsy(v) == v = NoValue \/ v = ""

JsonResponse(status, field, value) ==
    [status |-> status, body |-> [f \in {field} |-> value]]

\* --------------------------------------------------------------- actions

\* chat() that only rejects an absent message: an empty one goes on.
chat_none_only(t, data) ==
    /\ pc[t] \in {"idle", "done"}
    /\ served' = served + 1
    /\ req_session' = Append(req_session, data.session_id)
    /\ LET f == [EmptyFrame EXCEPT !.user_message = data.message,
                                   !.session_id = data.session_id,
                                   !.req = served + 1]
       IN IF data.message = NoValue
          THEN /\ frame' = [frame EXCEPT ![t] =
                     [f EXCEPT !.response = JsonResponse(400, "error", "Message is required")]]
               /\ pc' = [pc EXCEPT ![t] = "done"]
          ELSE /\ frame' = [frame EXCEPT ![t] = f]
               /\ pc' = [pc EXCEPT ![t] = "search"]
    /\ UNCHANGED conversation_history

\* Lines 143-149: a request arrives at a free handler thread; a request
\* without a message is answered 400 at once.
chat(t, data) ==
    /\ pc[t] \in {"idle", "done"}
    /\ served' = served + 1
    /\ req_session' = Append(req_session, data.session_id)
    /\ LET f == [EmptyFrame EXCEPT !.user_message = data.message,
                                   !.session_id = data.session_id,
                                   !.req = served + 1]
       IN IF Falsy(data.message)
          THEN /\ frame' = [frame EXCEPT ![t] =
                     [f EXCEPT !.response = JsonResponse(400, "error", "Message is required")]]
               /\ pc' = [pc EXCEPT ![t] = "done"]
          ELSE /\ frame' = [frame EXCEPT ![t] = f]
               /\ pc' = [pc EXCEPT ![t] = "search"]
    /\ UNCHANGED conversation_history

\* Lines 77-94 and 152: the Kendra query returns items.
kendra_search_returns(t, items) ==
    /\ pc[t] = "search"
    /\ frame' = [frame EXCEPT ![t].search_results = kendra_results(items),
                              ![t].calls = @ \cup {"kendra"}]
    /\ pc' = [pc EXCEPT ![t] = "generate"]
    /\ UNCHANGED <<conversation_history, served, req_session>>

\* Lines 95-97 and 152: the Kendra query raises; kendra_search returns [].
kendra_search_raises(t) ==
    /\ pc[t] = "search"
    /\ frame' = [frame EXCEPT ![t].search_results = <<>>,
                              ![t].calls = @ \cup {"kendra"},
                              ![t].raised = @ \cup {"kendra"}]
    /\ pc' = [pc EXCEPT ![t] = "generate"]
    /\ UNCHANGED <<conversation_history, served, req_session>>

\* Lines 103-118: the prompt is built and the shared history is copied
\* into the message list.
build_messages(t) ==
    /\ pc[t] = "generate"
    /\ frame' = [frame EXCEPT ![t].messages =
            <<Entry("system", build_context(frame[t].search_results), 0)>>
            \o conversation_history
            \o <<Entry("user", frame[t].user_message, frame[t].req)>>]
    /\ pc' = [pc EXCEPT ![t] = "complete"]
    /\ UNCHANGED <<conversation_history, served, req_session>>

\* Lines 121-126: the completion call returns a reply.
completion_returns(t, reply) ==
    /\ pc[t] = "complete"
    /\ frame' = [frame EXCEPT ![t].chatbot_response = reply,
                              ![t].calls = @ \cup {"openai"}]
    /\ pc' = [pc EXCEPT ![t] = "append_user"]
    /\ UNCHANGED <<conversation_history, served, req_session>>

\* The completion call raises after the user entry was already stored.
completion_raises_after_append(t) ==
    /\ pc[t] = "complete"
    /\ conversation_history' =
           Append(conversation_history, Entry("user", frame[t].user_message, frame[t].req))
    /\ frame' = [frame EXCEPT ![t].calls = @ \cup {"openai"},
                              ![t].raised = @ \cup {"openai"},
                              ![t].messages = <<>>,
                              ![t].response = JsonResponse(200, "reply", apology)]
    /\ pc' = [pc EXCEPT ![t] = "done"]
    /\ UNCHANGED <<served, req_session>>

\* Lines 121-124, 134-136 and 153-154: the completion call raises; the
\* handler of generate_combined_response returns the apology, which chat()
\* sends as a reply.
completion_raises(t) ==
    /\ pc[t] = "complete"
    /\ frame' = [frame EXCEPT ![t].calls = @ \cup {"openai"},
                              ![t].raised = @ \cup {"openai"},
                              ![t].messages = <<>>,
                              ![t].response = JsonResponse(200, "reply", apology)]
    /\ pc' = [pc EXCEPT ![t] = "done"]
    /\ UNCHANGED <<conversation_history, served, req_session>>

\* Line 129.
append_user(t) ==
    /\ pc[t] = "append_user"
    /\ conversation_history' =
           Append(conversation_history, Entry("user", frame[t].user_message, frame[t].req))
    /\ pc' = [pc EXCEPT ![t] = "append_assistant"]
    /\ UNCHANGED <<frame, served, req_session>>

\* append_assistant that keeps only the newest two entries of the list.
append_assistant_truncating(t) ==
    /\ pc[t] = "append_assistant"
    /\ LET h == Append(conversation_history,
                       Entry("assistant", frame[t].chatbot_response, frame[t].req))
       IN conversation_history' = SubSeq(h, Len(h) - 1, Len(h))
    /\ frame' = [frame EXCEPT ![t].messages = <<>>,
                              ![t].response =
                     JsonResponse(200, "reply", frame[t].chatbot_response)]
    /\ pc' = [pc EXCEPT ![t] = "done"]
    /\ UNCHANGED <<served, req_session>>

\* Lines 130-132 and 153-154: the reply is stored and returned.
append_assistant(t) ==
    /\ pc[t] = "append_assistant"
    /\ conversation_history' =
           Append(conversation_history,
                  Entry("assistant", frame[t].chatbot_response, frame[t].req))
    /\ frame' = [frame EXCEPT ![t].messages = <<>>,
                              ![t].response =
                     JsonResponse(200, "reply", frame[t].chatbot_response)]
    /\ pc' = [pc EXCEPT ![t] = "done"]
    /\ UNCHANGED <<served, req_session>>

\* ----------------------------------------------------- the three scenarios

\* Two handler threads, every kind of request body, a few result lists.
Next ==
    \/ \E t \in Threads, data \in Bodies : served < MaxRequests /\ chat(t, data)
    \/ \E t \in Threads, items \in FewItemLists : kendra_search_returns(t, items)
    \/ \E t \in Threads : kendra_search_raises(t)
    \/ \E t \in Threads : build_messages(t)
    \/ \E t \in Threads, reply \in Replies : completion_returns(t, reply)
    \/ \E t \in Threads : completion_raises(t)
    \/ \E t \in Threads : append_user(t)
    \/ \E t \in Threads : append_assistant(t)

Spec == Init /\ [][Next]_vars

\* One handler thread serving a long run of requests of one session.
SeqBodies == [message : {NoValue, "m1"}, session_id : {"s1"}]

NextSeq ==
    \/ \E data \in SeqBodies : served < MaxSeqRequests /\ chat("t1", data)
    \/ \E items \in {<<>>} : kendra_search_returns("t1", items)
    \/ kendra_search_raises("t1")
    \/ build_messages("t1")
    \/ \E reply \in {"r1"} : completion_returns("t1", reply)
    \/ completion_raises("t1")
    \/ append_user("t1")
    \/ append_assistant("t1")

SpecSeq == Init /\ [][NextSeq]_vars

\* One handler thread, every result list the Kendra query can return.
PromptBodies == [message : {NoValue, "m1"}, session_id : {"s1"}]

NextPrompt ==
    \/ \E data \in PromptBodies : served < MaxPromptRequests /\ chat("t1", data)
    \/ \E items \in AllItemLists : kendra_search_returns("t1", items)
    \/ kendra_search_raises("t1")
    \/ build_messages("t1")
    \/ \E reply \in {"r1"} : completion_returns("t1", reply)
    \/ completion_raises("t1")
    \/ append_user("t1")
    \/ append_assistant("t1")

SpecPrompt == Init /\ [][NextPrompt]_vars

\* ------------------------------------------------------------ the claims

\* The positions of conversation_history written by request r with the given role.
HistIdx(r, role) ==
    {i \in 1..Len(conversation_history) :
        conversation_history[i].req = r /\ conversation_history[i].role = role}

HasField(t, field) == field \in DOMAIN frame[t].response.body

\* The system prompt of the message list thread t has built.
ContextOf(t) == frame[t].messages[1].content

\* The entries of conversation_history thread t copied into its message list.
PriorOf(t) == SubSeq(frame[t].messages, 2, Len(frame[t].messages) - 1)

\* C1: after any run of successful requests the stored history holds at most
\* 10 turns (10 user entries and their 10 replies), the oldest being evicted.
C1_AtMostTenTurns ==
    Len(conversation_history) <= 2 * 10

\* C2: the history a request reads and sends to the completion service holds
\* only turns appended by requests that carried the same session identifier.
C2_SessionIsolation ==
    \A t \in Threads :
        pc[t] = "complete" =>
            \A i \in 1..Len(PriorOf(t)) :
                req_session[PriorOf(t)[i].req] = frame[t].session_id

\* C3: a request without a message (absent or empty) is answered 400 with an
\* "error" field, calls neither external service, and stores nothing: the
\* step that answers it leaves conversation_history as it was.
C3_MissingMessageState ==
    \A t \in Threads :
        (frame[t].req # 0 /\ Falsy(frame[t].user_message)) =>
            /\ pc[t] = "done"
            /\ frame[t].response.status = 400
            /\ HasField(t, "error")
            /\ frame[t].calls = {}
            /\ HistIdx(frame[t].req, "user") = {}
            /\ HistIdx(frame[t].req, "assistant") = {}

C3_MissingMessageStep ==
    \A t \in Threads :
        (frame'[t].req # frame[t].req /\ Falsy(frame'[t].user_message)) =>
            conversation_history' = conversation_history

C3_MissingMessage ==
    [](C3_MissingMessageState) /\ [][C3_MissingMessageStep]_vars

C3_Witness ==
    \E t \in Threads :
        /\ pc[t] = "done"
        /\ frame[t].user_message = ""
        /\ frame[t].response.status = 400
        /\ conversation_history # <<>>

\* C4: when the completion call raises, the request is answered 500 with an
\* "error" field.
C4_CompletionFailureIs500 ==
    \A t \in Threads :
        (pc[t] = "done" /\ "openai" \in frame[t].raised) =>
            /\ frame[t].response.status = 500
            /\ HasField(t, "error")

\* C5: when the completion call raises, nothing of the failed exchange is
\* stored: the step leaves conversation_history as it was and no entry of the
\* request is ever in it.
C5_FailedCompletionState ==
    \A t \in Threads :
        "openai" \in frame[t].raised =>
            /\ HistIdx(frame[t].req, "user") = {}
            /\ HistIdx(frame[t].req, "assistant") = {}

C5_FailedCompletionStep ==
    \A t \in Threads :
        ("openai" \notin frame[t].raised /\ "openai" \in frame'[t].raised) =>
            conversation_history' = conversation_history

C5_FailedCompletionKeepsHistory ==
    [](C5_FailedCompletionState) /\ [][C5_FailedCompletionStep]_vars

C5_Witness ==
    \E t \in Threads :
        /\ pc[t] = "done"
        /\ "openai" \in frame[t].raised
        /\ conversation_history # <<>>

\* C6: when the search call raises, the request is answered 500 with an
\* "error" field and the completion service is not called for it.
C6_SearchFailureIs500 ==
    \A t \in Threads :
        "kendra" \in frame[t].raised =>
            /\ "openai" \notin frame[t].calls
            /\ pc[t] = "done" =>
                   (frame[t].response.status = 500 /\ HasField(t, "error"))

\* The positions of a prompt after the persona template that hold a
\* "Property <n>:" line.
AppendedProperties(ctx) ==
    {p \in (Len(chatbot_context) + 1)..Len(ctx) : ctx[p].kind = "property"}

KindsOf(ctx) == {ctx[p].kind : p \in 1..Len(ctx)}

\* C7: for N >= 1 search results the prompt is the persona template followed
\* by exactly N property blocks, numbered 1..N, block k made of the k-th
\* result and in that order, and the fallback paragraph is not in it.
C7_NumberedBlocks ==
    \A t \in Threads :
        (pc[t] = "complete" /\ frame[t].search_results # <<>>) =>
            LET ctx == ContextOf(t)
                res == frame[t].search_results
                N   == Len(res)
                At(k) == {p \in AppendedProperties(ctx) : ctx[p].idx = k}
            IN /\ SubSeq(ctx, 1, Len(chatbot_context)) = chatbot_context
               /\ Cardinality(AppendedProperties(ctx)) = N
               /\ \A k \in 1..N :
                     /\ Cardinality(At(k)) = 1
                     /\ \A p \in At(k) :
                           /\ ctx[p].text = res[k].content
                           /\ p < Len(ctx)
                           /\ ctx[p + 1] = Line("image", 0, res[k].image_link)
                           /\ \A j \in 1..(k - 1) : \A q \in At(j) : q < p
               /\ "fallback" \notin KindsOf(ctx)

C7_Witness ==
    \E t \in Threads :
        /\ pc[t] = "complete"
        /\ Len(frame[t].search_results) = PageSize
        /\ frame[t].search_results[1].content # frame[t].search_results[2].content
        /\ frame[t].search_results[3].image_link = "No image available"

\* C8 as stated: with no search results and no history the prompt holds the
\* fallback text, no heading of matches and no "Property <n>:" line at all.
C8_NoPropertyLineAnywhere ==
    \A t \in Threads :
        (pc[t] = "complete" /\ frame[t].search_results = <<>> /\ PriorOf(t) = <<>>) =>
            /\ "fallback" \in KindsOf(ContextOf(t))
            /\ "matches" \notin KindsOf(ContextOf(t))
            /\ "property" \notin KindsOf(ContextOf(t))

\* C8 amended: with no search results and no history the prompt holds the
\* fallback text and no heading of matches, and its only "Property <n>:" line
\* is the example line "Property 1: Green Valley Apartments" of the persona
\* template: none is appended after the template.
C8_OnlyTemplateExample ==
    \A t \in Threads :
        (pc[t] = "complete" /\ frame[t].search_results = <<>> /\ PriorOf(t) = <<>>) =>
            LET ctx == ContextOf(t)
            IN /\ "fallback" \in KindsOf(ctx)
               /\ "matches" \notin KindsOf(ctx)
               /\ AppendedProperties(ctx) = {}
               /\ \A p \in 1..Len(ctx) :
                     ctx[p].kind = "property" =>
                         ctx[p] = Line("property", 1, "Green Valley Apartments")
               /\ Cardinality({p \in 1..Len(ctx) : ctx[p].kind = "property"}) = 1

C8_Witness ==
    \E t \in Threads :
        /\ pc[t] = "complete"
        /\ frame[t].search_results = <<>>
        /\ "kendra" \notin frame[t].raised
        /\ PriorOf(t) = <<>>

\* C9: a successful request stores exactly one user entry holding its message
\* and, after it, exactly one assistant entry holding the reply it returns;
\* every step leaves the entries already stored as they were, a new entry
\* going to the end of the list.
C9_OneTurnStored ==
    \A t \in Threads :
        (pc[t] = "done" /\ frame[t].response.status = 200 /\ "openai" \notin frame[t].raised) =>
            \E i, j \in 1..Len(conversation_history) :
                /\ i < j
                /\ HistIdx(frame[t].req, "user") = {i}
                /\ HistIdx(frame[t].req, "assistant") = {j}
                /\ conversation_history[i].content = frame[t].user_message
                /\ HasField(t, "reply")
                /\ conversation_history[j].content = frame[t].response.body.reply

C9_AppendOnlyStep ==
    /\ \/ conversation_history' = conversation_history
       \/ /\ Len(conversation_history') = Len(conversation_history) + 1
          /\ SubSeq(conversation_history', 1, Len(conversation_history)) = conversation_history
    /\ \A t \in Threads :
          (pc[t] = "append_assistant" /\ pc'[t] = "done") =>
              conversation_history' =
                  Append(conversation_history,
                         Entry("assistant", frame'[t].response.body.reply, frame[t].req))

C9_TurnAppended ==
    [](C9_OneTurnStored) /\ [][C9_AppendOnlyStep]_vars

C9_Witness ==
    \E t \in Threads :
        /\ pc[t] = "done"
        /\ frame[t].response.status = 200
        /\ "openai" \notin frame[t].raised
        /\ Len(conversation_history) = 4
        /\ HistIdx(frame[t].req, "assistant") = {4}

\* C10: in every reachable state the history is a sequence of whole turns:
\* entries alternate user then assistant, each user entry is directly followed
\* by the reply to the same request, and the length is even when no handler
\* is between its two appends.
C10_WholeTurns ==
    /\ (\A t \in Threads : pc[t] # "append_assistant") => Len(conversation_history) % 2 = 0
    /\ \A i \in 1..Len(conversation_history) :
          /\ conversation_history[i].role = (IF i % 2 = 1 THEN "user" ELSE "assistant")
          /\ (i % 2 = 1 /\ i < Len(conversation_history)) =>
                 conversation_history[i + 1].req = conversation_history[i].req

====
